---- MODULE Spec2Model ----
(***************************************************************************)
(* A model of apq.py: the line-oriented parser of the Postfix queue        *)
(* listing (parse_mq), the date normalizer, the filter pipeline and the    *)
(* output transform, as driven by main().                                  *)
(*                                                                         *)
(* Text is modelled character by character: a Python str is a sequence of  *)
(* one-character strings, so that slicing, strip(), split(), lower() and   *)
(* the first-character tests of the parser are computed as the code        *)
(* computes them.  A Python dict is a sequence of key/value entries in     *)
(* insertion order (CPython 3.7+ dict and OrderedDict); a dict with        *)
(* optional keys ("recipients", "reason", "date") is a function whose      *)
(* domain holds the keys that are present.                                 *)
(***************************************************************************)
EXTENDS Integers, Sequences, FiniteSets, TLC

\* The longest listing fed to parse_mq, in lines (see LineBudget).
MaxLines == 5

\* Python's None.  No str of the model equals it: a str is a sequence of
\* one-character strings.
None == <<"<None>">>

(***************************************************************************)
(* Python str operations                                                   *)
(***************************************************************************)
WHITESPACE == {" "}

RECURSIVE lstrip(_)
lstrip(s) == IF Len(s) > 0 /\ s[1] \in WHITESPACE THEN lstrip(Tail(s)) ELSE s

RECURSIVE rstrip(_)
rstrip(s) ==
    IF Len(s) > 0 /\ s[Len(s)] \in WHITESPACE
    THEN rstrip(SubSeq(s, 1, Len(s) - 1))
    ELSE s

strip(s) == rstrip(lstrip(s))

RECURSIVE TakeWord(_)
TakeWord(s) ==
    IF Len(s) = 0 \/ s[1] \in WHITESPACE
    THEN <<>>
    ELSE <<s[1]>> \o TakeWord(Tail(s))

\* str.split(): the maximal runs of non-whitespace characters.
RECURSIVE split(_)
split(s) ==
    LET t == lstrip(s) IN
    IF Len(t) = 0 THEN <<>>
    ELSE LET w == TakeWord(t) IN <<w>> \o split(SubSeq(t, Len(w) + 1, Len(t)))

\* sep.join(toks)
RECURSIVE join(_, _)
join(sep, toks) ==
    IF Len(toks) = 0 THEN <<>>
    ELSE IF Len(toks) = 1 THEN toks[1]
    ELSE toks[1] \o sep \o join(sep, Tail(toks))

\* s[:n]
Prefix(s, n) == SubSeq(s, 1, IF n < Len(s) THEN n ELSE Len(s))

\* s[i:j] for 0 <= i, 0 <= j (Python clamps both to len(s))
Slice(s, i, j) == SubSeq(s, i + 1, IF j < Len(s) THEN j ELSE Len(s))

\* s[1:-1]
Inner(s) == SubSeq(s, 2, Len(s) - 1)

\* s.replace(old, new) for a one-character old
replace(s, old, new) == [i \in 1..Len(s) |-> IF s[i] = old THEN new ELSE s[i]]

UPPERCASE == <<"A","B","C","D","E","F","G","H","I","J","K","L","M",
               "N","O","P","Q","R","S","T","U","V","W","X","Y","Z">>
LOWERCASE == <<"a","b","c","d","e","f","g","h","i","j","k","l","m",
               "n","o","p","q","r","s","t","u","v","w","x","y","z">>

LowerChar(c) ==
    IF \E i \in 1..26 : UPPERCASE[i] = c
    THEN LOWERCASE[CHOOSE i \in 1..26 : UPPERCASE[i] = c]
    ELSE c

lower(s) == [i \in 1..Len(s) |-> LowerChar(s[i])]

\* sub in s
Contains(s, sub) ==
    \E i \in 0..(Len(s) - Len(sub)) : SubSeq(s, i + 1, i + Len(sub)) = sub

DIGITS == <<"0","1","2","3","4","5","6","7","8","9">>

IsDigit(c) == \E i \in 1..10 : DIGITS[i] = c

DigitVal(c) == (CHOOSE i \in 1..10 : DIGITS[i] = c) - 1

\* int(s) succeeds on a non-empty run of decimal digits (a token of split()
\* holds no whitespace; signs and underscores do not occur in the model).
IsInt(s) == Len(s) > 0 /\ \A i \in 1..Len(s) : IsDigit(s[i])

RECURSIVE int(_)
int(s) == IF Len(s) = 0 THEN 0 ELSE 10 * int(SubSeq(s, 1, Len(s) - 1)) + DigitVal(s[Len(s)])

(***************************************************************************)
(* Python dict: entries in insertion order                                 *)
(***************************************************************************)
Keys(d) == [i \in 1..Len(d) |-> d[i].k]

KeySet(d) == {d[i].k : i \in 1..Len(d)}

Has(d, key) == key \in KeySet(d)

Get(d, key) == d[CHOOSE i \in 1..Len(d) : d[i].k = key].v

\* A dict that stores a repeated key as a new last entry (what deleting the key
\* before the assignment would do).
PutMovesKeyToEnd(d, key, val) ==
    LET others(e) == e.k # key IN
    Append(SelectSeq(d, others), [k |-> key, v |-> val])

\* d[key] = val: a new key is appended, an existing key keeps its position.
Put(d, key, val) ==
    IF Has(d, key)
    THEN [i \in 1..Len(d) |-> IF d[i].k = key THEN [k |-> key, v |-> val] ELSE d[i]]
    ELSE Append(d, [k |-> key, v |-> val])

\* obj[field] = val on a dict with string keys
SetField(obj, field, val) ==
    [f \in DOMAIN obj \cup {field} |-> IF f = field THEN val ELSE obj[f]]

(***************************************************************************)
(* Module constants                                                        *)
(***************************************************************************)
MAILQ_EMPTY == <<"m","a","i","l"," ","q","u","e","u","e"," ","i","s"," ","e","m","p","t","y">>

ST_ACTIVE == "active"
ST_HELD == "held"
ST_DEFER == "deferred"

MQ_STATE_HDR == 0
MQ_STATE_MSG_DATA == 1
MQ_STATE_RCPT == 2
MQ_STATE_REASON == 3
MQ_STATE_DONE == 4

HEX_DIGITS == {"0","1","2","3","4","5","6","7","8","9","A","B","C","D","E","F"}

BANNER == <<"-","Q","u","e","u","e"," ","I","D","-">>

MONTH_NAMES == << <<"J","a","n">>, <<"F","e","b">>, <<"M","a","r">>, <<"A","p","r">>,
                  <<"M","a","y">>, <<"J","u","n">>, <<"J","u","l">>, <<"A","u","g">>,
                  <<"S","e","p">>, <<"O","c","t">>, <<"N","o","v">>, <<"D","e","c">> >>

\* key in MONTH_MAP, MONTH_MAP[key]
InMonthMap(tok) == \E i \in 1..12 : MONTH_NAMES[i] = tok
MONTH_MAP(tok) == CHOOSE i \in 1..12 : MONTH_NAMES[i] = tok

(***************************************************************************)
(* Results: a returned value, or the exception that ended the call         *)
(***************************************************************************)
Ok(v) == [ok |-> TRUE, val |-> v]
Fail(e) == [ok |-> FALSE, val |-> e]

\* "if x" for a str or None
Truthy(x) == x # None /\ Len(x) > 0

\* re.search(re.compile(pattern, re.IGNORECASE), s) for a pattern of literal
\* characters: a case-insensitive search for the pattern anywhere in s.
Search(pattern, s) == Contains(lower(s), lower(pattern))

(***************************************************************************)
(* datetime                                                                *)
(***************************************************************************)
IsLeap(y) == (y % 4 = 0 /\ y % 100 # 0) \/ y % 400 = 0

DaysInMonth(y, m) ==
    IF m = 2 THEN (IF IsLeap(y) THEN 29 ELSE 28)
    ELSE IF m \in {4, 6, 9, 11} THEN 30 ELSE 31

DaysBeforeYear(y) ==
    LET p == y - 1 IN p * 365 + (p \div 4) - (p \div 100) + (p \div 400)

RECURSIVE DaysBeforeMonth(_, _)
DaysBeforeMonth(y, m) ==
    IF m = 1 THEN 0 ELSE DaysBeforeMonth(y, m - 1) + DaysInMonth(y, m - 1)

\* datetime.datetime(year, month, day, hour, minute, second) raises ValueError
\* outside these ranges.
ValidDateTime(y, mo, d, h, mi, s) ==
    /\ mo \in 1..12
    /\ d >= 1 /\ d <= DaysInMonth(y, mo)
    /\ h \in 0..23 /\ mi \in 0..59 /\ s \in 0..59

DateTime(y, mo, d, h, mi, s) ==
    [year |-> y, month |-> mo, day |-> d, hour |-> h, minute |-> mi, second |-> s]

\* (dt - UNIX_EPOCH).total_seconds() for a datetime of whole seconds
TotalSeconds(dt) ==
    (DaysBeforeYear(dt.year) + DaysBeforeMonth(dt.year, dt.month) + dt.day
       - (DaysBeforeYear(1970) + 1)) * 86400
    + dt.hour * 3600 + dt.minute * 60 + dt.second

\* s.split(sep) for a one-character sep
RECURSIVE SplitOn(_, _)
SplitOn(s, sep) ==
    IF \E i \in 1..Len(s) : s[i] = sep
    THEN LET i == CHOOSE j \in 1..Len(s) : s[j] = sep /\ \A k \in 1..(j - 1) : s[k] # sep
         IN  <<SubSeq(s, 1, i - 1)>> \o SplitOn(SubSeq(s, i + 1, Len(s)), sep)
    ELSE <<s>>

(***************************************************************************)
(* The listing: the lines the model feeds to parse_mq                      *)
(***************************************************************************)
SP == <<" ">>

DATE_JAN == <<"M","o","n"," ","J","a","n"," "," ","5"," ","1","0",":","0","0",":","0","0">>
DATE_DEC == <<"T","u","e"," ","D","e","c"," ","3","1"," ","2","3",":","5","9",":","5","9">>

\* "A*  9 Mon Jan  5 10:00:00  s@x": an active message
LINE_HDR_ACTIVE == <<"A","*">> \o SP \o SP \o <<"9">> \o SP \o DATE_JAN \o SP \o SP \o <<"s","@","x">>
\* "B  9 Tue Dec 31 23:59:59  T@y": a deferred message
LINE_HDR_DEFER == <<"B">> \o SP \o SP \o <<"9">> \o SP \o DATE_DEC \o SP \o SP \o <<"T","@","y">>
\* "A|  7 Mon Jan  5 10:00:00  s@x": a held message, with the identifier of the active one
LINE_HDR_HELD == <<"A","|">> \o SP \o SP \o <<"7">> \o SP \o DATE_JAN \o SP \o SP \o <<"s","@","x">>
\* "C  9 Thu Feb 29 10:00:00  s@x": a deferred message of a leap day
DATE_FEB29 == <<"T","h","u"," ","F","e","b"," ","2","9"," ","1","0",":","0","0",":","0","0">>
LINE_HDR_FEB29 == <<"C">> \o SP \o SP \o <<"9">> \o SP \o DATE_FEB29 \o SP \o SP \o <<"s","@","x">>
\* "(Ab c)": a delay reason
LINE_REASON == <<" ","(","A","b"," ","c",")">>
\* "()": an empty delay reason
LINE_REASON_EMPTY == <<" ","(",")">>
LINE_ADDR == <<" "," ","U","@","x">>
LINE_BLANK == <<>>
LINE_BANNER == BANNER \o <<"-">>
LINE_EMPTY_QUEUE == <<"M","a","i","l"," ","q","u","e","u","e"," ","i","s"," ","e","m","p","t","y">>
LINE_FOOTER == <<"-","-"," ","1"," ","K","b","y","t","e","s">>
LINE_JUNK == <<"z","z">>
LINE_SPACES == <<" "," ">>

LinePool ==
    { LINE_HDR_ACTIVE, LINE_HDR_DEFER, LINE_HDR_HELD, LINE_HDR_FEB29,
      LINE_REASON, LINE_REASON_EMPTY,
      LINE_ADDR, LINE_BLANK, LINE_BANNER, LINE_EMPTY_QUEUE,
      LINE_FOOTER, LINE_JUNK, LINE_SPACES }

(***************************************************************************)
(* The command lines and the clocks of the model                           *)
(***************************************************************************)
\* argparse's result with no option given (parse_date's None is falsy: FALSE)
DefaultArgs ==
    [ count |-> FALSE, yaml |-> FALSE, postfix3 |-> FALSE,
      reason |-> None, sender |-> None, recipient |-> None,
      parse_date |-> FALSE, minage |-> None, maxage |-> None,
      exclude_active |-> FALSE, only_active |-> FALSE ]

PAT_REASON == <<"a","B">>
PAT_SENDER == <<"S","@">>
PAT_RECIPIENT == <<"u","@">>
AGE_1H == <<"1","h">>
AGE_3600 == <<"3","6","0","0">>
AGE_BAD_UNIT == <<"1","w">>
AGE_NO_DIGITS == <<"h">>

\* One option each, and some together.
ArgsPool ==
    { DefaultArgs,
      [DefaultArgs EXCEPT !.count = TRUE],
      [DefaultArgs EXCEPT !.postfix3 = TRUE],
      [DefaultArgs EXCEPT !.reason = PAT_REASON],
      [DefaultArgs EXCEPT !.sender = PAT_SENDER],
      [DefaultArgs EXCEPT !.recipient = PAT_RECIPIENT],
      [DefaultArgs EXCEPT !.parse_date = TRUE],
      [DefaultArgs EXCEPT !.minage = AGE_1H],
      [DefaultArgs EXCEPT !.maxage = AGE_3600],
      [DefaultArgs EXCEPT !.exclude_active = TRUE],
      [DefaultArgs EXCEPT !.only_active = TRUE],
      [DefaultArgs EXCEPT !.sender = PAT_SENDER, !.recipient = PAT_RECIPIENT, !.exclude_active = TRUE],
      [DefaultArgs EXCEPT !.minage = AGE_BAD_UNIT],
      [DefaultArgs EXCEPT !.maxage = AGE_NO_DIGITS],
      [DefaultArgs EXCEPT !.exclude_active = TRUE, !.only_active = TRUE] }

\* Sunday 5 January 2025, 11:00:00: one hour after LINE_HDR_ACTIVE's date
NOW_JAN == [year |-> 2025, month |-> 1, day |-> 5, hour |-> 11, minute |-> 0, second |-> 0,
            microsecond |-> 0]

ClockPool ==
    { [now |-> NOW_JAN, utcoffset |-> 0],
      [now |-> [NOW_JAN EXCEPT !.microsecond = 500000], utcoffset |-> 0],
      [now |-> NOW_JAN, utcoffset |-> 3600] }

\* The options that read the clock after the dates are parsed.
ReadsClock(a) == Truthy(a.minage) \/ Truthy(a.maxage)

\* The lines of the listings explored with the command line a: the longest
\* listings run with the default options and with one of the options that read
\* the recipient groups (a listing that closes a recipient group with a reason
\* takes five lines), listings two lines shorter with the other options.
LineBudget(a) ==
    IF a \in { DefaultArgs,
               [DefaultArgs EXCEPT !.reason = PAT_REASON],
               [DefaultArgs EXCEPT !.recipient = PAT_RECIPIENT],
               [DefaultArgs EXCEPT !.postfix3 = TRUE] }
    THEN MaxLines
    ELSE MaxLines - 2

(***************************************************************************)
(* State                                                                   *)
(***************************************************************************)
VARIABLES
    pc,          \* the statement main() is at
    consumed,    \* the lines of mailq_stdout.splitlines() the loop has taken
    line,        \* parse_mq: line, the line taken last
    state,       \* parse_mq: state
    msgs,        \* parse_mq: msgs, then main: msgs
    queue_id,    \* parse_mq: queue_id; msg is msgs[queue_id]
    recipients,  \* parse_mq: recipients (unbound until the first header)
    addresses,   \* parse_mq: addresses
    reason,      \* parse_mq: reason
    args,        \* main: args, the parsed command line
    now,         \* the clock: what datetime.datetime.now() returns
    utcoffset,   \* the local time zone, in seconds east of UTC
    stdout,      \* what the process has printed on stdout
    exit_code,   \* the exit status of the process, None while it runs
    err          \* what ended the process abnormally

vars == <<pc, consumed, line, state, msgs, queue_id, recipients, addresses, reason,
          args, now, utcoffset, stdout, exit_code, err>>

env_vars == <<args, now, utcoffset, stdout>>

parser_vars == <<state, msgs, queue_id, recipients, addresses, reason>>

(***************************************************************************)
(* _append_recipients                                                      *)
(***************************************************************************)
\* The value of recipients after _append_recipients(reason, addresses, recipients).
\* "if reason" is false for None and for the empty str.
AppendRecipients(rsn, addrs, rcpts) ==
    IF Len(addrs) > 0
    THEN Append(rcpts,
                IF rsn # None /\ Len(rsn) > 0
                THEN [addresses |-> addrs, reason |-> rsn]
                ELSE [addresses |-> addrs])
    ELSE rcpts

(***************************************************************************)
(* main: the statements after parse_args, in order, and the test that      *)
(* guards each                                                             *)
(***************************************************************************)
STAGES == << "parse_mq", "parse_msg_dates", "filter_reason", "filter_sender",
             "filter_recipient", "filter_minage", "filter_maxage", "filter_active",
             "output_msgs" >>

Wanted(a, stage) ==
    CASE stage = "parse_mq" -> TRUE
      [] stage = "parse_msg_dates" -> a.parse_date = TRUE \/ Truthy(a.minage) \/ Truthy(a.maxage)
      [] stage = "filter_reason" -> Truthy(a.reason)
      [] stage = "filter_sender" -> Truthy(a.sender)
      [] stage = "filter_recipient" -> Truthy(a.recipient)
      [] stage = "filter_minage" -> Truthy(a.minage)
      [] stage = "filter_maxage" -> Truthy(a.maxage)
      [] stage = "filter_active" -> a.exclude_active \/ a.only_active
      [] stage = "output_msgs" -> TRUE

StageIndex(stage) == CHOOSE i \in 1..Len(STAGES) : STAGES[i] = stage

\* The next statement of main that runs after `stage`.
StageAfter(a, stage) ==
    STAGES[CHOOSE i \in (StageIndex(stage) + 1)..Len(STAGES) :
               /\ Wanted(a, STAGES[i])
               /\ \A j \in (StageIndex(stage) + 1)..(i - 1) : ~Wanted(a, STAGES[j])]

(***************************************************************************)
(* parse_mq: one action per branch of the loop body                        *)
(***************************************************************************)
IsBlankOrBanner(ln) == Len(ln) = 0 \/ Prefix(ln, 10) = BANNER
IsEmptySentinel(ln) == Len(ln) = Len(MAILQ_EMPTY) /\ lower(ln) = MAILQ_EMPTY
IsFooter(ln) == Prefix(ln, 2) = <<"-", "-">>
IsHeader(ln) == ln[1] \in HEX_DIGITS
LeftStripped(ln) == lstrip(ln)
IsReason(ln) == Len(LeftStripped(ln)) > 0 /\ LeftStripped(ln)[1] = "("
IsAddress(ln) == Contains(ln, <<"@">>)

\* The branch of the if/elif chain a ln takes, the loop not being in DONE.
Branch(ln) ==
    IF IsBlankOrBanner(ln) THEN "blank"
    ELSE IF IsEmptySentinel(ln) THEN "empty"
    ELSE IF IsFooter(ln) THEN "footer"
    ELSE IF IsHeader(ln) THEN "header"
    ELSE IF Len(LeftStripped(ln)) = 0 THEN "IndexError"
    ELSE IF IsReason(ln) THEN "reason"
    ELSE IF IsAddress(ln) THEN "address"
    ELSE "unknown"

\* call_mailq returns stdout.strip(): the listing neither starts nor ends with
\* whitespace or an empty line.
\* The listings of the model: the column banner comes first or not at all, an
\* empty line comes only where the parser acts on it (a record is open), and
\* the empty delay reason comes only as the first reason of a Held or Deferred
\* record, and the message of the leap day is alone in its listing.
Shaped(ln) ==
    /\ Prefix(ln, 10) = BANNER => Len(consumed) = 0
    /\ ln = LINE_HDR_FEB29 => Len(consumed) = 0
    /\ Len(consumed) > 0 => consumed[1] # LINE_HDR_FEB29
    /\ Len(ln) = 0 => state = MQ_STATE_RCPT
    /\ ln = LINE_REASON_EMPTY => state = MQ_STATE_REASON

CanTake(ln) ==
    /\ pc = "parse_mq"
    /\ Len(consumed) < LineBudget(args)
    /\ Len(consumed) = 0 => (Len(ln) > 0 /\ lstrip(ln) = ln)
    /\ Shaped(ln)

Take(ln) ==
    /\ consumed' = Append(consumed, ln)
    /\ line' = ln

\* The process ends with exit status 1 on the line ln: its variables are gone.
Exit1(ln, why) ==
    /\ pc' = "exit"
    /\ exit_code' = 1
    /\ err' = why
    /\ line' = ln
    /\ consumed' = <<>>
    /\ state' = None
    /\ msgs' = <<>>
    /\ queue_id' = None
    /\ recipients' = None
    /\ addresses' = None
    /\ reason' = None
    /\ UNCHANGED env_vars

\* _quit(msg): sys.exit(1)
Quit(ln, why) == Exit1(ln, why)

\* an uncaught exception: traceback, exit status 1
Raise(ln, what) == Exit1(ln, what)

\* msg["recipients"] = recipients, msg being msgs[queue_id]
SetRecipients(d, rcpts) == Put(d, queue_id, SetField(Get(d, queue_id), "recipients", rcpts))

\* The loop without its test for lines after the footer: such a line is skipped.
LineAfterDoneSkipped(ln) ==
    /\ CanTake(ln)
    /\ state = MQ_STATE_DONE
    /\ Take(ln)
    /\ UNCHANGED <<pc, parser_vars, exit_code, err, env_vars>>

LineAfterDone(ln) ==
    /\ CanTake(ln)
    /\ state = MQ_STATE_DONE
    /\ Quit(ln, "Unexpected input")

LineBlank(ln) ==
    /\ CanTake(ln)
    /\ state # MQ_STATE_DONE
    /\ Branch(ln) = "blank"
    /\ Take(ln)
    /\ IF state = MQ_STATE_RCPT
       THEN /\ recipients' = AppendRecipients(reason, addresses, recipients)
            /\ msgs' = SetRecipients(msgs, recipients')
            /\ state' = MQ_STATE_MSG_DATA
       ELSE UNCHANGED <<recipients, msgs, state>>
    /\ UNCHANGED <<pc, queue_id, addresses, reason, exit_code, err, env_vars>>

\* The sentinel branch without its test of the state: the sentinel ends the
\* parse wherever it stands.
LineEmptyQueueInAnyState(ln) ==
    /\ CanTake(ln)
    /\ state # MQ_STATE_DONE
    /\ Branch(ln) = "empty"
    /\ Take(ln)
    /\ pc' = StageAfter(args, "parse_mq")
    /\ UNCHANGED <<parser_vars, exit_code, err, env_vars>>

LineEmptyQueue(ln) ==
    /\ CanTake(ln)
    /\ state # MQ_STATE_DONE
    /\ Branch(ln) = "empty"
    /\ IF state # MQ_STATE_HDR
       THEN Quit(ln, "Unexpected input")
       ELSE /\ Take(ln)
            /\ pc' = StageAfter(args, "parse_mq")
            /\ UNCHANGED <<parser_vars, exit_code, err, env_vars>>

LineFooter(ln) ==
    /\ CanTake(ln)
    /\ state # MQ_STATE_DONE
    /\ Branch(ln) = "footer"
    /\ IF state # MQ_STATE_REASON /\ state # MQ_STATE_MSG_DATA
       THEN Quit(ln, "Expected delay reason")
       ELSE /\ Take(ln)
            /\ state' = MQ_STATE_DONE
            /\ UNCHANGED <<pc, msgs, queue_id, recipients, addresses, reason, exit_code, err,
                           env_vars>>

\* The status chain without its elif branch for the '|' marker.
StatusOfWithoutHeld(tok) ==
    IF tok[Len(tok)] = "*" THEN ST_ACTIVE ELSE ST_DEFER

StatusOf(tok) ==
    IF tok[Len(tok)] = "*" THEN ST_ACTIVE
    ELSE IF tok[Len(tok)] = "|" THEN ST_HELD
    ELSE ST_DEFER

\* The identifier with the '|' marker left on it.
QueueIdOfKeepsHeldMarker(tok) ==
    IF tok[Len(tok)] = "*" THEN SubSeq(tok, 1, Len(tok) - 1) ELSE tok

QueueIdOf(tok) ==
    IF tok[Len(tok)] = "*" \/ tok[Len(tok)] = "|"
    THEN SubSeq(tok, 1, Len(tok) - 1)
    ELSE tok

NewMsg(s) ==
    [ size |-> s[2],
      rawdate |-> join(SP, Slice(s, 2, 6)),
      sender |-> s[Len(s)],
      status |-> StatusOf(s[1]) ]

LineHeader(ln) ==
    /\ CanTake(ln)
    /\ state # MQ_STATE_DONE
    /\ Branch(ln) = "header"
    /\ LET s == split(ln) IN
       IF Len(s) < 2
       THEN \* s[1]: IndexError
            Raise(ln, "IndexError")
       ELSE /\ Take(ln)
            /\ msgs' = Put(IF state = MQ_STATE_RCPT THEN SetRecipients(msgs, recipients) ELSE msgs,
                           QueueIdOf(s[1]), NewMsg(s))
            /\ queue_id' = QueueIdOf(s[1])
            /\ state' = IF StatusOf(s[1]) = ST_ACTIVE THEN MQ_STATE_RCPT ELSE MQ_STATE_REASON
            /\ recipients' = <<>>
            /\ addresses' = <<>>
            /\ UNCHANGED <<pc, reason, exit_code, err, env_vars>>

ReasonOf(ln) == replace(Inner(strip(ln)), "\n", " ")

LineReason(ln) ==
    /\ CanTake(ln)
    /\ state # MQ_STATE_DONE
    /\ Branch(ln) = "reason"
    /\ IF state # MQ_STATE_REASON /\ state # MQ_STATE_RCPT
       THEN Quit(ln, "Unexpected state for input")
       ELSE /\ Take(ln)
            /\ recipients' = IF state = MQ_STATE_RCPT
                             THEN AppendRecipients(reason, addresses, recipients)
                             ELSE recipients
            /\ reason' = ReasonOf(ln)
            /\ state' = MQ_STATE_RCPT
            /\ addresses' = <<>>
            /\ UNCHANGED <<pc, msgs, queue_id, exit_code, err, env_vars>>

\* The address branch without its test of the state.
LineAddressInAnyState(ln) ==
    /\ CanTake(ln)
    /\ state # MQ_STATE_DONE
    /\ Branch(ln) = "address"
    /\ Take(ln)
    /\ addresses' = Append(addresses, strip(ln))
    /\ UNCHANGED <<pc, state, msgs, queue_id, recipients, reason, exit_code, err,
                   env_vars>>

LineAddress(ln) ==
    /\ CanTake(ln)
    /\ state # MQ_STATE_DONE
    /\ Branch(ln) = "address"
    /\ IF state # MQ_STATE_RCPT
       THEN Quit(ln, "Expected recipient address")
       ELSE /\ Take(ln)
            /\ addresses' = Append(addresses, strip(ln))
            /\ UNCHANGED <<pc, state, msgs, queue_id, recipients, reason, exit_code, err,
                           env_vars>>

LineUnknown(ln) ==
    /\ CanTake(ln)
    /\ state # MQ_STATE_DONE
    /\ Branch(ln) = "unknown"
    /\ Quit(ln, "Unknown input line")

\* line.lstrip(' ')[0] on a line of blanks
LineOfSpaces(ln) ==
    /\ CanTake(ln)
    /\ state # MQ_STATE_DONE
    /\ Branch(ln) = "IndexError"
    /\ Raise(ln, "IndexError")

\* The loop runs out of lines: return msgs.
ParseEnd ==
    /\ pc = "parse_mq"
    /\ Len(consumed) > 0 =>
          LET last == consumed[Len(consumed)] IN Len(last) > 0 /\ rstrip(last) = last
    /\ pc' = StageAfter(args, "parse_mq")
    /\ UNCHANGED <<consumed, line, parser_vars, exit_code, err, env_vars>>

(***************************************************************************)
(* Date normalizer                                                         *)
(***************************************************************************)
\* parse_mailq_date(d, now): the epoch seconds, or the exception raised.
parse_mailq_date(d, nw) ==
    LET toks == split(d) IN
    IF Len(toks) # 4 THEN Fail("ValueError")
    ELSE
    LET mon_str == toks[2]
        day == toks[3]
        hms == SplitOn(toks[4], ":")
    IN
    IF Len(hms) # 3 THEN Fail("ValueError")
    ELSE IF ~InMonthMap(mon_str) THEN Fail("KeyError")
    ELSE IF ~(IsInt(day) /\ IsInt(hms[1]) /\ IsInt(hms[2]) /\ IsInt(hms[3])) THEN Fail("ValueError")
    ELSE
    LET mo == MONTH_MAP(mon_str)
        dd == int(day)
        h == int(hms[1])
        mi == int(hms[2])
        s == int(hms[3])
    IN
    IF ~ValidDateTime(nw.year, mo, dd, h, mi, s) THEN Fail("ValueError")
    ELSE IF TotalSeconds(DateTime(nw.year, mo, dd, h, mi, s)) > TotalSeconds(nw)
    THEN \* d > now: a whole second compares with now's whole seconds
         IF ~ValidDateTime(nw.year - 1, mo, dd, h, mi, s) THEN Fail("ValueError")
         ELSE Ok(TotalSeconds(DateTime(nw.year - 1, mo, dd, h, mi, s)))
    ELSE Ok(TotalSeconds(DateTime(nw.year, mo, dd, h, mi, s)))

\* parse_msg_dates(msgs, now)
RECURSIVE parse_msg_dates(_, _)
parse_msg_dates(d, nw) ==
    IF Len(d) = 0 THEN Ok(<<>>)
    ELSE
    LET e == d[1] IN
    IF "date" \in DOMAIN e.v
    THEN parse_msg_dates(Tail(d), nw)
    ELSE
    LET r == parse_mailq_date(e.v.rawdate, nw) IN
    IF ~r.ok THEN r
    ELSE LET rest == parse_msg_dates(Tail(d), nw) IN
         IF ~rest.ok THEN rest
         ELSE Ok(<<[k |-> e.k, v |-> SetField(e.v, "date", r.val)]>> \o rest.val)

(***************************************************************************)
(* Filters                                                                 *)
(***************************************************************************)
\* The entries of d that satisfy Keep, in d's order: what a loop over
\* d.items() that inserts the kept entries into a new dict builds.
Select(d, Keep(_)) == SelectSeq(d, Keep)

\* filter_on_msg_key(msgs, pattern, key)
filter_on_msg_key(d, pattern, key) ==
    LET Keep(e) == key \in DOMAIN e.v /\ Search(pattern, e.v[key])
    IN  Ok(Select(d, Keep))

\* filter_on_msg_reason(msgs, pattern): msg["recipients"] and
\* recipient["reason"] raise KeyError when the key is missing.
filter_on_msg_reason(d, pattern) ==
    LET Visited(e) == e.v.status # ST_ACTIVE
        Breaks(e) ==
            \/ "recipients" \notin DOMAIN e.v
            \/ \E i \in 1..Len(e.v.recipients) : "reason" \notin DOMAIN e.v.recipients[i]
        Keep(e) ==
            /\ Visited(e)
            /\ \E i \in 1..Len(e.v.recipients) :
                  /\ Truthy(e.v.recipients[i].reason)
                  /\ Search(pattern, e.v.recipients[i].reason)
    IN  IF \E i \in 1..Len(d) : Visited(d[i]) /\ Breaks(d[i])
        THEN Fail("KeyError")
        ELSE Ok(Select(d, Keep))

\* filter_on_msg_recipient(msgs, pattern)
filter_on_msg_recipient(d, pattern) ==
    LET Keep(e) ==
            \E i \in 1..Len(e.v.recipients) :
               \E j \in 1..Len(e.v.recipients[i].addresses) :
                  Search(pattern, e.v.recipients[i].addresses[j])
    IN  IF \E i \in 1..Len(d) : "recipients" \notin DOMAIN d[i].v
        THEN Fail("KeyError")
        ELSE Ok(Select(d, Keep))

\* The seconds a duration's suffix stands for.
UnitSeconds(c) ==
    CASE c = "s" -> 1
      [] c = "m" -> 60
      [] c = "h" -> 60 * 60
      [] c = "d" -> 60 * 60 * 24

\* filter_on_msg_age(msgs, condition, age), with the clock at nw and the local
\* zone at offset: datetime.fromtimestamp(d) is the local time of the instant d.
filter_on_msg_age(d, condition, age, nw, offset) ==
    LET unit == age[Len(age)]
        digits == SubSeq(age, 1, Len(age) - 1)
    IN
    IF unit \in {"s", "m", "h", "d"} /\ ~IsInt(digits) THEN Fail("ValueError")
    ELSE IF unit \notin {"s", "m", "h", "d"}
         THEN (IF Len(d) = 0 THEN Ok(<<>>) ELSE Fail("NameError"))
    ELSE
    LET age_secs == int(digits) * UnitSeconds(unit)
        \* (now - fromtimestamp(date)).total_seconds(): whole seconds, and
        \* now's microseconds on top
        whole(e) == TotalSeconds(nw) - (e.v.date + offset)
        Keep(e) ==
            IF condition = "minage"
            THEN whole(e) >= age_secs
            ELSE whole(e) < age_secs \/ (whole(e) = age_secs /\ nw.microsecond = 0)
    IN  IF \E i \in 1..Len(d) : "date" \notin DOMAIN d[i].v
        THEN Fail("KeyError")
        ELSE Ok(Select(d, Keep))

\* The active filter with an iteration that skips the first record it would keep.
filter_active_skips_first(d, a) ==
    LET Keep(e) ==
            IF a.exclude_active THEN e.v.status # "active" ELSE e.v.status = "active"
        kept == Select(d, Keep)
    IN  Ok(IF Len(kept) = 0 THEN kept ELSE Tail(kept))

\* main: the exclude_active / only_active comprehension
filter_active(d, a) ==
    LET Keep(e) ==
            IF a.exclude_active THEN e.v.status # "active" ELSE e.v.status = "active"
    IN  Ok(Select(d, Keep))

(***************************************************************************)
(* Output                                                                  *)
(***************************************************************************)
\* time.strftime('%Y-%m-%d %H:%M:%S', time.localtime(date)): the text of the
\* local wall-clock time of the instant, kept as that time's seconds.
StrfLocalTime(date, offset) == [strftime |-> date + offset]

\* format_msgs_for_output(msgs)
format_msgs_for_output(d, offset) ==
    [i \in 1..Len(d) |->
        IF "date" \in DOMAIN d[i].v
        THEN [k |-> d[i].k, v |-> SetField(d[i].v, "date", StrfLocalTime(d[i].v.date, offset))]
        ELSE d[i]]

\* The recipients list convert_to_postfix31 builds.
RECURSIVE P3Recipients(_)
P3Recipients(groups) ==
    IF Len(groups) = 0 THEN <<>>
    ELSE [j \in 1..Len(groups[1].addresses) |->
             [delay_reason |-> groups[1].reason, address |-> groups[1].addresses[j]]]
         \o P3Recipients(Tail(groups))

\* dict.get(key): None for a missing key
DictGet(obj, key) == IF key \in DOMAIN obj THEN obj[key] ELSE None

\* convert_to_postfix31(queue_id, msg)
convert_to_postfix31(qid, msg, nw) ==
    LET at == parse_mailq_date(DictGet(msg, "rawdate"), nw) IN
    IF ~at.ok THEN at
    ELSE IF "recipients" \notin DOMAIN msg THEN Fail("KeyError")
    ELSE IF \E i \in 1..Len(msg.recipients) : "reason" \notin DOMAIN msg.recipients[i]
    THEN Fail("KeyError")
    ELSE Ok([ queue_name |-> DictGet(msg, "status"),
              queue_id |-> qid,
              arrival_time |-> at.val,
              message_size |-> DictGet(msg, "size"),
              sender |-> DictGet(msg, "sender"),
              recipients |-> P3Recipients(msg.recipients) ])

\* The postfix3 loop of output_msgs: what it has printed, and whether it
\* ran to its end.
RECURSIVE PrintPostfix3(_, _)
PrintPostfix3(d, nw) ==
    IF Len(d) = 0 THEN [printed |-> <<>>, ok |-> TRUE, val |-> None]
    ELSE LET r == convert_to_postfix31(d[1].k, d[1].v, nw) IN
         IF ~r.ok THEN [printed |-> <<>>, ok |-> FALSE, val |-> r.val]
         ELSE LET rest == PrintPostfix3(Tail(d), nw) IN
              [printed |-> <<r.val>> \o rest.printed, ok |-> rest.ok, val |-> rest.val]

(***************************************************************************)
(* main                                                                    *)
(***************************************************************************)
\* An uncaught exception outside parse_mq: traceback, exit status 1.
Crash(where, what) ==
    /\ pc' = "exit"
    /\ exit_code' = 1
    /\ err' = <<where, what>>

\* msgs = <result of a stage>, or the exception it raised
Assign(stage, r) ==
    IF r.ok
    THEN /\ msgs' = r.val
         /\ pc' = StageAfter(args, stage)
         /\ UNCHANGED <<exit_code, err>>
    ELSE /\ Crash(stage, r.val)
         /\ UNCHANGED msgs

frame_vars == <<consumed, line, state, queue_id, recipients, addresses, reason,
                args, now, utcoffset, stdout>>

ParseMsgDates ==
    /\ pc = "parse_msg_dates"
    /\ Assign("parse_msg_dates", parse_msg_dates(msgs, now))
    /\ UNCHANGED frame_vars

FilterReason ==
    /\ pc = "filter_reason"
    /\ Assign("filter_reason", filter_on_msg_reason(msgs, args.reason))
    /\ UNCHANGED frame_vars

FilterSender ==
    /\ pc = "filter_sender"
    /\ Assign("filter_sender", filter_on_msg_key(msgs, args.sender, "sender"))
    /\ UNCHANGED frame_vars

FilterRecipient ==
    /\ pc = "filter_recipient"
    /\ Assign("filter_recipient", filter_on_msg_recipient(msgs, args.recipient))
    /\ UNCHANGED frame_vars

FilterMinage ==
    /\ pc = "filter_minage"
    /\ Assign("filter_minage", filter_on_msg_age(msgs, "minage", args.minage, now, utcoffset))
    /\ UNCHANGED frame_vars

FilterMaxage ==
    /\ pc = "filter_maxage"
    /\ Assign("filter_maxage", filter_on_msg_age(msgs, "maxage", args.maxage, now, utcoffset))
    /\ UNCHANGED frame_vars

FilterActive ==
    /\ pc = "filter_active"
    /\ Assign("filter_active", filter_active(msgs, args))
    /\ UNCHANGED frame_vars

\* output_msgs(args, msgs), then the process ends with status 0.  The yaml
\* branch hands msgs to PyYAML, which is no part of this source: the command
\* lines of the model leave --yaml off.
OutputMsgs ==
    /\ pc = "output_msgs"
    /\ IF args.count
       THEN /\ stdout' = <<Len(msgs)>>
            /\ pc' = "exit"
            /\ exit_code' = 0
            /\ UNCHANGED <<msgs, err>>
       ELSE /\ msgs' = format_msgs_for_output(msgs, utcoffset)
            /\ IF args.postfix3 /\ ~args.yaml
               THEN LET r == PrintPostfix3(msgs', now) IN
                    /\ stdout' = r.printed
                    /\ IF r.ok
                       THEN pc' = "exit" /\ exit_code' = 0 /\ UNCHANGED err
                       ELSE Crash("output_msgs", r.val)
               ELSE /\ stdout' = <<msgs'>>
                    /\ pc' = "exit"
                    /\ exit_code' = 0
                    /\ UNCHANGED err
    /\ UNCHANGED <<consumed, line, state, queue_id, recipients, addresses, reason,
                   args, now, utcoffset>>

\* parse_args() without its check of exclude_active against only_active.
ParseArgsWithoutExclusionCheck ==
    /\ pc = "parse_args"
    /\ LET BadAge(age) ==
              Truthy(age) /\ ~IsDigit(age[Len(age)]) /\ age[Len(age)] \notin {"s", "m", "h", "d"}
           Seconds(age) ==
              IF Truthy(age) /\ IsDigit(age[Len(age)]) THEN age \o <<"s">> ELSE age
       IN
       IF BadAge(args.minage) \/ BadAge(args.maxage)
       THEN /\ Crash("parse_args", "Error")
            /\ UNCHANGED args
       ELSE /\ args' = [args EXCEPT !.minage = Seconds(args.minage),
                                     !.maxage = Seconds(args.maxage)]
            /\ pc' = "parse_mq"
            /\ UNCHANGED <<exit_code, err>>
    /\ UNCHANGED <<consumed, line, parser_vars, now, utcoffset, stdout>>

\* parse_args(): the checks after parser.parse_args().  The error branches
\* end the process with a non-zero status.
ParseArgs ==
    /\ pc = "parse_args"
    /\ LET BadAge(age) ==
              Truthy(age) /\ ~IsDigit(age[Len(age)]) /\ age[Len(age)] \notin {"s", "m", "h", "d"}
           Seconds(age) ==
              IF Truthy(age) /\ IsDigit(age[Len(age)]) THEN age \o <<"s">> ELSE age
       IN
       IF BadAge(args.minage) \/ BadAge(args.maxage)
             \/ (args.exclude_active /\ args.only_active)
       THEN /\ Crash("parse_args", "Error")
            /\ UNCHANGED args
       ELSE /\ args' = [args EXCEPT !.minage = Seconds(args.minage),
                                     !.maxage = Seconds(args.maxage)]
            /\ pc' = "parse_mq"
            /\ UNCHANGED <<exit_code, err>>
    /\ UNCHANGED <<consumed, line, parser_vars, now, utcoffset, stdout>>

Init ==
    /\ pc = "parse_args"
    /\ args \in ArgsPool
    /\ \E c \in ClockPool :
          /\ now = c.now
          /\ utcoffset = c.utcoffset
          /\ ReadsClock(args) \/ c = [now |-> NOW_JAN, utcoffset |-> 0]
    /\ stdout = <<>>
    /\ consumed = <<>>
    /\ line = None
    /\ state = MQ_STATE_HDR
    /\ msgs = <<>>
    /\ queue_id = None
    /\ recipients = None
    /\ addresses = None
    /\ reason = None
    /\ exit_code = None
    /\ err = None

Next ==
    \/ ParseArgs
    \/ \E ln \in LinePool :
          \/ LineAfterDone(ln)
          \/ LineBlank(ln)
          \/ LineEmptyQueue(ln)
          \/ LineFooter(ln)
          \/ LineHeader(ln)
          \/ LineReason(ln)
          \/ LineAddress(ln)
          \/ LineUnknown(ln)
          \/ LineOfSpaces(ln)
    \/ ParseEnd
    \/ ParseMsgDates
    \/ FilterReason
    \/ FilterSender
    \/ FilterRecipient
    \/ FilterMinage
    \/ FilterMaxage
    \/ FilterActive
    \/ OutputMsgs

Spec == Init /\ [][Next]_vars

(***************************************************************************)
(* The listing as read so far, for the statements about parse results      *)
(***************************************************************************)
\* parse_mq is running, or has just returned msgs to main.
InParse == pc = "parse_mq"
Parsed == pc = StageAfter(args, "parse_mq")

\* The positions of the record header lines taken so far.
HeaderIdxs == {i \in 1..Len(consumed) : Branch(consumed[i]) = "header"}

\* The identifier token of a header line, its trailing marker, and the
\* identifier without the marker.
IdToken(ln) == TakeWord(ln)
Marker(ln) ==
    LET tok == IdToken(ln) IN
    IF tok[Len(tok)] \in {"*", "|"} THEN tok[Len(tok)] ELSE ""
BareId(ln) ==
    LET tok == IdToken(ln) IN
    IF Marker(ln) = "" THEN tok ELSE SubSeq(tok, 1, Len(tok) - 1)

\* The last header line that introduced the identifier key.
LastHeaderOf(key) ==
    LET H == HeaderIdxs IN
    CHOOSE i \in H :
       /\ BareId(consumed[i]) = key
       /\ \A j \in H : j > i => BareId(consumed[j]) # key

\* The position of the header line that follows header line i, or one past the end.
NextHeader(i) ==
    LET H == HeaderIdxs IN
    IF \E j \in H : j > i
    THEN CHOOSE j \in H : j > i /\ \A k \in H : k > i => j <= k
    ELSE Len(consumed) + 1

\* The lines of the record block header line i opens.
BlockLines(i) == SubSeq(consumed, i + 1, NextHeader(i) - 1)

IsAddressLine(ln) == Branch(ln) = "address"
IsReasonLine(ln) == Branch(ln) = "reason"

\* The address lines of a block, stripped, in order.
BlockAddresses(i) ==
    LET a == SelectSeq(BlockLines(i), IsAddressLine) IN [j \in 1..Len(a) |-> strip(a[j])]

\* All addresses of the recipient groups of a record, in order.
RECURSIVE GroupAddresses(_)
GroupAddresses(groups) ==
    IF Len(groups) = 0 THEN <<>> ELSE groups[1].addresses \o GroupAddresses(Tail(groups))

AddressesOf(msg) ==
    IF "recipients" \in DOMAIN msg THEN GroupAddresses(msg.recipients) ELSE <<>>

(***************************************************************************)
(* C1                                                                      *)
(***************************************************************************)
\* C1: a header line read while recipients are being collected closes the prior
\* group onto the previous record, so every record that a later header line
\* has ended carries all address lines of its block.
C1_HeaderClosesPriorGroup ==
    (InParse \/ Parsed) =>
       \A i \in HeaderIdxs :
          (NextHeader(i) <= Len(consumed) /\ LastHeaderOf(BareId(consumed[i])) = i) =>
             AddressesOf(Get(msgs, BareId(consumed[i]))) = BlockAddresses(i)

(***************************************************************************)
(* C2                                                                      *)
(***************************************************************************)
\* The texts of the reason lines of a block.
BlockReasons(i) ==
    LET r == SelectSeq(BlockLines(i), IsReasonLine) IN
    {Inner(strip(r[j])) : j \in 1..Len(r)}

\* An address line comes in the block before any reason line.
AddressBeforeReason(i) ==
    LET b == BlockLines(i) IN
    \E j \in 1..Len(b) : IsAddressLine(b[j]) /\ \A k \in 1..(j - 1) : ~IsReasonLine(b[k])

\* C2: every recipient group's reason is the text of a reason line of the
\* record's own block, and the addresses an Active record lists before any
\* reason line form a group with no reason.
C2_ReasonStaysInRecord ==
    (InParse \/ Parsed) =>
       \A n \in 1..Len(msgs) :
          LET msg == msgs[n].v
              i == LastHeaderOf(msgs[n].k)
          IN  "recipients" \in DOMAIN msg =>
                 /\ \A g \in 1..Len(msg.recipients) :
                       "reason" \in DOMAIN msg.recipients[g] =>
                          msg.recipients[g].reason \in BlockReasons(i)
                 /\ (msg.status = ST_ACTIVE /\ AddressBeforeReason(i)
                        /\ Len(msg.recipients) > 0) =>
                       "reason" \notin DOMAIN msg.recipients[1]

(***************************************************************************)
(* C3                                                                      *)
(***************************************************************************)
\* C3: when the input ends in CollectingRecipients or ExpectReason, parse_mq
\* returns and the last record carries its recipient groups with every address
\* of its block; a lone Active header line yields one Active record with
\* recipient_groups = [] and the header's last token as sender.
C3_EndOfInputFlushes ==
    (Parsed /\ state \in {MQ_STATE_RCPT, MQ_STATE_REASON}) =>
       LET msg == Get(msgs, queue_id) IN
       /\ "recipients" \in DOMAIN msg
       /\ AddressesOf(msg) = BlockAddresses(LastHeaderOf(queue_id))
       /\ consumed = <<LINE_HDR_ACTIVE>> =>
             /\ Len(msgs) = 1
             /\ msg.status = ST_ACTIVE
             /\ msg.recipients = <<>>
             /\ msg.sender = <<"s", "@", "x">>

(***************************************************************************)
(* C4                                                                      *)
(***************************************************************************)
\* The identifiers the header lines taken so far introduce.
HeaderIds == {BareId(consumed[i]) : i \in HeaderIdxs}

FirstHeaderOf(key) ==
    LET H == HeaderIdxs IN
    CHOOSE i \in H :
       /\ BareId(consumed[i]) = key
       /\ \A j \in H : j < i => BareId(consumed[j]) # key

\* The identifiers ids come in the order of their first header lines.
InInputOrder(ids) ==
    /\ \A a \in 1..Len(ids) : ids[a] \in HeaderIds
    /\ \A a, b \in 1..Len(ids) : a < b => FirstHeaderOf(ids[a]) < FirstHeaderOf(ids[b])

\* The identifiers of what output_msgs printed, in the order printed.
PrintedIds ==
    IF args.count \/ Len(stdout) = 0 THEN <<>>
    ELSE IF args.postfix3 THEN [i \in 1..Len(stdout) |-> stdout[i].queue_id]
    ELSE Keys(stdout[1])

\* C5: the parsed collection holds the records in the order of first appearance
\* of their header lines, and the collection after every later stage, and what
\* is printed, keep the surviving records in that order.
C5_InputOrderKept ==
    /\ (InParse \/ Parsed) => KeySet(msgs) = HeaderIds
    /\ InInputOrder(Keys(msgs))
    /\ InInputOrder(PrintedIds)

\* Three header lines, the third repeating the identifier of the first, went
\* through the active filter and the output with both records kept.
C5_Witness ==
    /\ pc = "exit"
    /\ exit_code = 0
    /\ args.exclude_active
    /\ HeaderIdxs = {1, 2, 3}
    /\ BareId(consumed[1]) = BareId(consumed[3])
    /\ BareId(consumed[1]) # BareId(consumed[2])
    /\ Len(msgs) = 2
    /\ PrintedIds = Keys(msgs)

(***************************************************************************)
(* C6                                                                      *)
(***************************************************************************)
\* C6: every record's status is Active, Held or Deferred: Active iff the
\* identifier token of its header line ended with '*', Held iff with '|',
\* Deferred otherwise; and it is keyed by the identifier without that marker.
C6_StatusFromMarker ==
    (InParse \/ Parsed) =>
       /\ KeySet(msgs) = HeaderIds
       /\ \A n \in 1..Len(msgs) :
             LET h == consumed[LastHeaderOf(msgs[n].k)]
                 status == msgs[n].v.status
             IN  /\ status \in {"active", "held", "deferred"}
                 /\ status = "active" <=> Marker(h) = "*"
                 /\ status = "held" <=> Marker(h) = "|"
                 /\ status = "deferred" <=> Marker(h) = ""

\* parse_mq has returned a Held and a Deferred record, the Held one from a
\* header line that followed an Active header line of the same identifier.
C6_Witness ==
    /\ Parsed
    /\ Cardinality(HeaderIdxs) = 3
    /\ \E n \in 1..Len(msgs) : msgs[n].v.status = "held"
    /\ \E n \in 1..Len(msgs) : msgs[n].v.status = "deferred"
    /\ \E i \in HeaderIdxs : Marker(consumed[i]) = "*"

(***************************************************************************)
(* C7                                                                      *)
(***************************************************************************)
\* C7: in a parse result that parse_mq returns, every Held or Deferred record
\* has recipient_groups, and they are not empty.
C7_NonActiveHasGroups ==
    Parsed =>
       \A n \in 1..Len(msgs) :
          msgs[n].v.status # ST_ACTIVE =>
             /\ "recipients" \in DOMAIN msgs[n].v
             /\ Len(msgs[n].v.recipients) > 0

(***************************************************************************)
(* C8                                                                      *)
(***************************************************************************)
RECURSIVE CountAddresses(_)
CountAddresses(groups) ==
    IF Len(groups) = 0 THEN 0 ELSE Len(groups[1].addresses) + CountAddresses(Tail(groups))

\* C8: the postfix3 transform yields, for every record whatever its status, an
\* object with one {delay_reason, address} entry per address of each recipient
\* group, each entry with the reason of its group.  Stated of the records whose
\* recipient groups parse_mq has stored.
C8_Postfix3EntryPerAddress ==
    (pc = "output_msgs" /\ args.postfix3 /\ ~args.count) =>
       \A n \in 1..Len(msgs) :
          "recipients" \in DOMAIN msgs[n].v =>
             LET r == convert_to_postfix31(msgs[n].k, msgs[n].v, now)
                 groups == msgs[n].v.recipients
             IN  /\ r.ok
                 /\ Len(r.val.recipients) = CountAddresses(groups)
                 /\ \A g \in 1..Len(groups) : \A j \in 1..Len(groups[g].addresses) :
                       \E x \in 1..Len(r.val.recipients) :
                          /\ r.val.recipients[x].address = groups[g].addresses[j]
                          /\ "reason" \in DOMAIN groups[g] =>
                                r.val.recipients[x].delay_reason = groups[g].reason

(***************************************************************************)
(* C9                                                                      *)
(***************************************************************************)
\* C9: the reason filter returns a result for every parsed collection, and it
\* keeps exactly the non-Active records with a recipient group whose non-empty
\* reason matches the pattern.
C9_ReasonFilterTotal ==
    pc = "filter_reason" =>
       LET r == filter_on_msg_reason(msgs, args.reason)
           Matches(msg) ==
              /\ msg.status # "active"
              /\ "recipients" \in DOMAIN msg
              /\ \E g \in 1..Len(msg.recipients) :
                    /\ "reason" \in DOMAIN msg.recipients[g]
                    /\ Len(msg.recipients[g].reason) > 0
                    /\ Search(args.reason, msg.recipients[g].reason)
       IN  /\ r.ok
           /\ \A n \in 1..Len(msgs) : Matches(msgs[n].v) <=> msgs[n].k \in KeySet(r.val)

(***************************************************************************)
(* C10                                                                     *)
(***************************************************************************)
\* A filter that returned r returns r again when applied to what it returned.
Again(r, F(_)) == r.ok => F(r.val) = r

\* C10: each filter, applied to the collection main hands it, returns a
\* collection on which the same filter with the same argument and the same
\* clock returns that collection again.
C10_FiltersIdempotent ==
    /\ pc = "filter_reason" =>
          Again(filter_on_msg_reason(msgs, args.reason),
                LAMBDA m : filter_on_msg_reason(m, args.reason))
    /\ pc = "filter_sender" =>
          Again(filter_on_msg_key(msgs, args.sender, "sender"),
                LAMBDA m : filter_on_msg_key(m, args.sender, "sender"))
    /\ pc = "filter_recipient" =>
          Again(filter_on_msg_recipient(msgs, args.recipient),
                LAMBDA m : filter_on_msg_recipient(m, args.recipient))
    /\ pc = "filter_minage" =>
          Again(filter_on_msg_age(msgs, "minage", args.minage, now, utcoffset),
                LAMBDA m : filter_on_msg_age(m, "minage", args.minage, now, utcoffset))
    /\ pc = "filter_maxage" =>
          Again(filter_on_msg_age(msgs, "maxage", args.maxage, now, utcoffset),
                LAMBDA m : filter_on_msg_age(m, "maxage", args.maxage, now, utcoffset))
    /\ pc = "filter_active" =>
          Again(filter_active(msgs, args), LAMBDA m : filter_active(m, args))

\* The active filter is about to run on two records: it keeps one of them and
\* drops the other.
C10_Witness ==
    /\ pc = "filter_active"
    /\ Len(msgs) = 2
    /\ Len(filter_active(msgs, args).val) = 1

(***************************************************************************)
(* C11                                                                     *)
(***************************************************************************)
\* The month, day and time a raw timestamp states, placed in the year y, in
\* seconds since the epoch.
CandidateIn(rawdate, y) ==
    LET toks == split(rawdate)
        hms == SplitOn(toks[4], ":")
    IN  TotalSeconds(DateTime(y, MONTH_MAP(toks[2]), int(toks[3]),
                              int(hms[1]), int(hms[2]), int(hms[3])))

\* C11: for every raw timestamp and every now, parse_mailq_date returns the
\* candidate of now's year, or that of the year before when the candidate is
\* strictly after now; what it returns is never after now.
C11_DateResolution ==
    pc = "parse_msg_dates" =>
       \A n \in 1..Len(msgs) :
          LET raw == msgs[n].v.rawdate
              r == parse_mailq_date(raw, now)
          IN  /\ r.ok
              /\ r.val <= TotalSeconds(now)
              /\ r.val = IF CandidateIn(raw, now.year) > TotalSeconds(now)
                         THEN CandidateIn(raw, now.year - 1)
                         ELSE CandidateIn(raw, now.year)

(***************************************************************************)
(* C12                                                                     *)
(***************************************************************************)
\* The seconds of a duration literal: an integer and a suffix s, m, h or d.
WellFormedAge(age) ==
    /\ age[Len(age)] \in {"s", "m", "h", "d"}
    /\ IsInt(SubSeq(age, 1, Len(age) - 1))
DurationOf(age) ==
    LET n == int(SubSeq(age, 1, Len(age) - 1))
        unit == age[Len(age)]
    IN  IF unit = "s" THEN n
        ELSE IF unit = "m" THEN n * 60
        ELSE IF unit = "h" THEN n * 3600
        ELSE n * 86400

\* now minus the resolved time of a record is at least, is at most, dur seconds
\* (now counts its microseconds, the resolved time is of whole seconds).
AgeAtLeast(msg, dur) == TotalSeconds(now) - msg.date >= dur
AgeAtMost(msg, dur) ==
    \/ TotalSeconds(now) - msg.date < dur
    \/ TotalSeconds(now) - msg.date = dur /\ now.microsecond = 0

\* C12: with a well-formed duration, minage keeps exactly the records whose age
\* (now minus resolved time) is at least the duration, and maxage exactly those
\* whose age is at most the duration.
C12_AgeFilters ==
    /\ (pc = "filter_minage" /\ WellFormedAge(args.minage)) =>
          LET r == filter_on_msg_age(msgs, "minage", args.minage, now, utcoffset) IN
          /\ r.ok
          /\ \A n \in 1..Len(msgs) :
                msgs[n].k \in KeySet(r.val) <=> AgeAtLeast(msgs[n].v, DurationOf(args.minage))
    /\ (pc = "filter_maxage" /\ WellFormedAge(args.maxage)) =>
          LET r == filter_on_msg_age(msgs, "maxage", args.maxage, now, utcoffset) IN
          /\ r.ok
          /\ \A n \in 1..Len(msgs) :
                msgs[n].k \in KeySet(r.val) <=> AgeAtMost(msgs[n].v, DurationOf(args.maxage))

(***************************************************************************)
(* C13                                                                     *)
(***************************************************************************)
\* No line of the listing has been read and no record exists.
NothingParsed ==
    /\ consumed = <<>>
    /\ msgs = <<>>
    /\ state \in {MQ_STATE_HDR, None}
    /\ stdout = <<>>

\* C13: with exclude_active and only_active both set the process is either
\* still in parse_args or has exited with a non-zero status, and no line of
\* the listing was read: the outcome does not depend on the listing.
C13_ExclusiveActiveFlags ==
    (args.exclude_active /\ args.only_active) =>
       /\ pc \in {"parse_args", "exit"}
       /\ NothingParsed
       /\ pc = "exit" => exit_code \in 1..255

\* The process has exited on the two flags.
C13_Witness ==
    /\ args.exclude_active /\ args.only_active
    /\ pc = "exit"
    /\ exit_code = 1
    /\ err = <<"parse_args", "Error">>

(***************************************************************************)
(* C14                                                                     *)
(***************************************************************************)
\* A step of the loop of parse_mq on the line line': the line is taken, or the
\* process ends on it.
LineStep ==
    /\ pc = "parse_mq"
    /\ consumed' = Append(consumed, line') \/ pc' = "exit"

\* The step is a fatal parse error: the process ends with status 1 and
\* parse_mq returns nothing.
FatalStep == pc' = "exit" /\ exit_code' = 1 /\ msgs' = <<>> /\ stdout' = <<>>

\* parse_mq returns with this step.
ReturnStep == pc' = StageAfter(args, "parse_mq") /\ exit_code' = None

\* A step on a line equal, case-insensitively, to the sentinel: in state Header
\* parse_mq returns the empty collection at once, elsewhere the step is fatal.
SentinelStep ==
    (LineStep /\ lower(line') = MAILQ_EMPTY) =>
       IF state = MQ_STATE_HDR
       THEN ReturnStep /\ msgs' = <<>>
       ELSE FatalStep

\* A listing that is the sentinel alone, under count-only output, prints 0.
SentinelCount ==
    (pc = "exit" /\ exit_code = 0 /\ args.count /\ Len(consumed) = 1
        /\ lower(consumed[1]) = MAILQ_EMPTY)
       => stdout = <<0>>

\* C14: the empty-queue sentinel is valid only in state Header, where it ends
\* parsing at once with an empty collection (count-only output 0); in any
\* other state it is a fatal parse error.
C14_SentinelOnlyInHeader == [][SentinelStep]_vars /\ []SentinelCount

\* The sentinel alone was parsed and the count 0 printed.
C14_Witness ==
    /\ pc = "exit"
    /\ exit_code = 0
    /\ args.count
    /\ consumed = <<LINE_EMPTY_QUEUE>>
    /\ msgs = <<>>
    /\ stdout = <<0>>

(***************************************************************************)
(* C15                                                                     *)
(***************************************************************************)
\* A step on a footer line, the loop not being in Done: accepted in
\* ExpectReason and ExpectMessageBoundary, where it moves the parser to Done
\* and leaves the records alone; fatal in Header and CollectingRecipients.
FooterStep ==
    (LineStep /\ Prefix(line', 2) = <<"-", "-">> /\ state # MQ_STATE_DONE) =>
       IF state \in {MQ_STATE_REASON, MQ_STATE_MSG_DATA}
       THEN /\ state' = MQ_STATE_DONE
            /\ pc' = "parse_mq"
            /\ msgs' = msgs
            /\ exit_code' = None
       ELSE FatalStep

\* In Done every further line is fatal.
AfterDoneStep == (LineStep /\ state = MQ_STATE_DONE) => FatalStep

\* Done is entered by a footer line only, and while parse_mq runs in Done no
\* record is created or changed.
DoneStep ==
    /\ (pc = "parse_mq" /\ pc' # "exit" /\ state # MQ_STATE_DONE /\ state' = MQ_STATE_DONE) =>
          (LineStep /\ Prefix(line', 2) = <<"-", "-">>)
    /\ (pc = "parse_mq" /\ state = MQ_STATE_DONE /\ pc' # "exit") => msgs' = msgs

\* C15: a footer line is accepted only in ExpectReason or
\* ExpectMessageBoundary, where it moves the parser to Done; in Header or
\* CollectingRecipients it is fatal; after Done any further line makes the
\* parse fail, so no record is created or changed after the footer.
C15_FooterThenDone == [][FooterStep /\ AfterDoneStep /\ DoneStep]_vars

\* The footer closed a listing with a record, and parse_mq returned it.
C15_Witness ==
    /\ Parsed
    /\ state = MQ_STATE_DONE
    /\ Len(msgs) > 0
    /\ Prefix(consumed[Len(consumed)], 2) = <<"-", "-">>

(***************************************************************************)
(* C16                                                                     *)
(***************************************************************************)
\* A line that holds an '@' and is none of the lines the loop classifies
\* before it looks for the '@': not empty, not the banner, not the sentinel,
\* not a footer, not starting with a hexadecimal digit, and with a first
\* non-blank character other than '('.
AddressLooking(ln) ==
    /\ \E i \in 1..Len(ln) : ln[i] = "@"
    /\ Len(ln) > 0
    /\ Prefix(ln, 10) # BANNER
    /\ lower(ln) # MAILQ_EMPTY
    /\ Prefix(ln, 2) # <<"-", "-">>
    /\ ln[1] \notin HEX_DIGITS
    /\ Len(lstrip(ln)) > 0
    /\ lstrip(ln)[1] # "("

\* A step on an address-looking line: in CollectingRecipients the stripped
\* line is appended to the open address list and nothing else changes; in
\* every other state the step is fatal.
AddressStep ==
    (LineStep /\ AddressLooking(line')) =>
       IF state = MQ_STATE_RCPT
       THEN /\ addresses' = Append(addresses, strip(line'))
            /\ state' = MQ_STATE_RCPT
            /\ pc' = "parse_mq"
            /\ exit_code' = None
            /\ UNCHANGED <<msgs, queue_id, recipients, reason>>
       ELSE FatalStep

\* C16: an address-looking line is accepted only in CollectingRecipients,
\* where it is appended, stripped, to the open group's address list and the
\* state stays; in every other state it is a fatal parse error and no result
\* is returned.
C16_AddressOnlyWhileCollecting == [][AddressStep]_vars

\* An address line was taken in CollectingRecipients and stands, stripped, at
\* the end of the open address list.
C16_Witness ==
    /\ pc = "parse_mq"
    /\ state = MQ_STATE_RCPT
    /\ AddressLooking(line)
    /\ line # strip(line)
    /\ Len(addresses) > 0
    /\ addresses[Len(addresses)] = strip(line)

(***************************************************************************)
(* C17                                                                     *)
(***************************************************************************)
\* The loop of parse_mq runs out of lines: no line is taken and parse_mq is left.
EndOfInputStep ==
    /\ pc = "parse_mq"
    /\ pc' # "parse_mq"
    /\ consumed' = consumed

\* C17: the end of the input in state Header, no header line and no sentinel
\* having been read, is a fatal error: the process ends with a non-zero status
\* and does not go on with an empty result.
C17_EndInHeaderIsFatal ==
    [][(EndOfInputStep /\ state = MQ_STATE_HDR) => (pc' = "exit" /\ exit_code' \in 1..255)]_vars

(***************************************************************************)
(* C18                                                                     *)
(***************************************************************************)
\* A duration literal as the command line gives it: an integer, or an integer
\* and one of the suffixes s, m, h, d.
WellFormedDuration(age) ==
    \/ IsInt(age)
    \/ WellFormedAge(age)

Malformed(age) == Truthy(age) /\ ~WellFormedDuration(age)

\* C18: with a malformed minage or maxage (digits missing, or an unknown
\* suffix) the process is either still in parse_args or has exited with a
\* non-zero status, no line of the listing having been read and no stage of
\* main having run.
C18_MalformedDurationIsConfigError ==
    (Malformed(args.minage) \/ Malformed(args.maxage)) =>
       /\ pc \in {"parse_args", "exit"}
       /\ NothingParsed
       /\ pc = "exit" => (exit_code \in 1..255 /\ err = <<"parse_args", "Error">>)

(***************************************************************************)
(* C19                                                                     *)
(***************************************************************************)
\* The record after is the record before with a resolved time added and
\* nothing else changed.
OnlyDateAdded(before, after) ==
    /\ "date" \in DOMAIN after
    /\ DOMAIN after = DOMAIN before \cup {"date"}
    /\ \A f \in DOMAIN before : f # "date" => after[f] = before[f]

\* The collection after holds the records of the collection before, in the
\* same order, each with only the resolved time added.
SameRecordsDated(before, after) ==
    /\ Keys(after) = Keys(before)
    /\ \A n \in 1..Len(before) : OnlyDateAdded(before[n].v, after[n].v)

\* C19: parse_msg_dates, when it returns, returns the records it was given,
\* each with only the resolved time added, and it returns them again when it
\* is applied to the collection it returned: a record that carries a resolved
\* time is not dropped.
C19_DatesAddedNothingDropped ==
    pc = "parse_msg_dates" =>
       LET r == parse_msg_dates(msgs, now) IN
       r.ok =>
          /\ SameRecordsDated(msgs, r.val)
          /\ LET again == parse_msg_dates(r.val, now) IN
             again.ok /\ SameRecordsDated(msgs, again.val)

(***************************************************************************)
(* C20                                                                     *)
(***************************************************************************)
\* Every recipient group stored on a record has at least one address.
GroupsHaveAddresses ==
    \A n \in 1..Len(msgs) :
       "recipients" \in DOMAIN msgs[n].v =>
          \A g \in 1..Len(msgs[n].v.recipients) :
             Len(msgs[n].v.recipients[g].addresses) > 0

\* The texts of the reason lines of a block that an address line follows
\* directly: the reasons whose group is not empty when it is closed.
BlockReasonsWithAddress(i) ==
    LET b == BlockLines(i) IN
    {Inner(strip(b[j])) : j \in {k \in 1..(Len(b) - 1) :
                                    IsReasonLine(b[k]) /\ IsAddressLine(b[k + 1])}}

\* The text of a reason line that no address line follows is kept nowhere:
\* every reason stored on a record is that of a reason line of the record's
\* block that an address line follows.
UnusedReasonsNotKept ==
    \A n \in 1..Len(msgs) :
       "recipients" \in DOMAIN msgs[n].v =>
          \A g \in 1..Len(msgs[n].v.recipients) :
             "reason" \in DOMAIN msgs[n].v.recipients[g] =>
                msgs[n].v.recipients[g].reason
                   \in BlockReasonsWithAddress(LastHeaderOf(msgs[n].k))

\* C20: in the records parse_mq has built, and in those it returns, every
\* recipient group stored on a record has at least one address, and a reason
\* line followed by no address line before its group is closed contributes no
\* group and its text is not kept.
C20_NoEmptyGroups ==
    (InParse \/ Parsed) => (GroupsHaveAddresses /\ UnusedReasonsNotKept)

====
